---- MODULE Spec2Model ----
(***************************************************************************)
(* Ledger engine of account_transaction_reader: AccountService and its     *)
(* record_transaction handler (src/src/services/account.rs), and the       *)
(* ingestion loop of main that feeds it (src/src/main.rs).                 *)
(*                                                                         *)
(* Decimal amounts are integers counted in units of 0.0001 (the amounts    *)
(* the deserializer delivers are rounded to 4 fractional digits).  An      *)
(* Option<Decimal> is a sequence: << >> is None, <<a>> is Some(a).         *)
(* A HashMap is a function whose DOMAIN is the set of keys present.        *)
(* The amounts of the model are positive and far from the 96-bit range of  *)
(* Decimal, whose checked arithmetic would panic on overflow.              *)
(***************************************************************************)
EXTENDS Integers, Sequences, FiniteSets, TLC

\* ---- bounds of the model ----
NumClients == 2
NumTxs == 2
MaxAmount == 1
MaxSteps == 4

Clients == 1..NumClients
TxIds == 1..NumTxs
\* amounts of a deposit or withdrawal row, in units of 0.0001
Amounts == 1..MaxAmount
OptAmounts == {<< >>} \cup {<<a>> : a \in Amounts}
\* the amount of a dispute, resolve, chargeback or unrecognized row: the engine
\* never reads it, the rows carry none
NoAmount == {<< >>}

\* TransactionType; "unknown" is Unknown(String)
TransactionType == {"deposit", "withdrawal", "dispute", "resolve", "chargeback", "unknown"}

\* struct Transaction { type, client, tx, amount }
Transaction(ty, c, x, am) == [type |-> ty, client |-> c, tx |-> x, amount |-> am]

VARIABLES
    accounts,                   \* HashMap<u16, Account>
    disputable_transactions,    \* HashMap<u32, Transaction>
    disputed_transaction_ids,   \* HashSet<u32>
    resolved_dispute_ids,       \* HashSet<u32>
    last,                       \* history: the transaction of the latest call, << >> before the first
    before,                     \* history: the engine state the latest call started from
    dispute_start,              \* history: <<s>> when the latest call is a Resolve that directly
                                \*   follows a Dispute of the same client and tx, s being the
                                \*   engine state that Dispute started from; << >> otherwise
    steps,                      \* history: number of calls so far
    clients_seen,               \* history: the client ids of the transactions of all calls so far
    disputes_applied,           \* history: the <<client, tx>> pairs of the Disputes applied so far
    ids_once,                   \* history: no Deposit or Withdrawal so far carried a tx id that was
                                \*   stored, and no Dispute named a tx id that was under dispute
    pc,                         \* main: "reading" inside the ingestion loop, "done" after it
    idx,                        \* main: the enumerate() index, the number of rows read so far
    skipped                     \* history: number of rows skipped as malformed

\* The engine uses a client id and a tx id only as map and set keys, so every
\* client without an account behaves like every other one, and so does every tx
\* id that is not in the history index (such a tx id is in neither set).  A call
\* names any client that has an account or the least one that has none, and any
\* stored tx id or the least one that is not stored.
CallClients == {c \in Clients : c <= Cardinality(DOMAIN accounts) + 1}
CallTxIds == {x \in TxIds : x <= Cardinality(DOMAIN disputable_transactions) + 1}

\* the transactions of one kind the reader can hand to the engine
TransactionsOf(ty) ==
    {Transaction(ty, c, x, am) :
        c \in CallClients, x \in CallTxIds,
        am \in IF ty \in {"deposit", "withdrawal"} THEN OptAmounts ELSE NoAmount}

vars == <<accounts, disputable_transactions, disputed_transaction_ids, resolved_dispute_ids,
          last, before, dispute_start, steps, clients_seen, disputes_applied,
          ids_once, pc, idx, skipped>>

\* Option<Decimal>
is_none(o) == o = << >>
unwrap(o) == o[1]

\* the Account inserted for an unseen client
NewAccount(c) == [client |-> c, available |-> 0, held |-> 0, total |-> 0, locked |-> FALSE]

\* accounts after the contains_key / insert at the head of record_transaction
EnsureAccount(accts, c) ==
    IF c \in DOMAIN accts
    THEN accts
    ELSE [k \in DOMAIN accts \cup {c} |-> IF k = c THEN NewAccount(c) ELSE accts[k]]

\* HashMap::insert
MapInsert(m, k, v) == [x \in DOMAIN m \cup {k} |-> IF x = k THEN v ELSE m[x]]

\* mutant of IsLocked: the guard is missing
IsLocked_Missing(account) == FALSE

\* the locked guard: the referenced account is locked
IsLocked(account) == account.locked

\* mutant of InsufficientFunds: the funds are not checked
InsufficientFunds_Missing(amount, account) == FALSE

\* the Withdrawal guard: not enough funds to withdraw
InsufficientFunds(amount, account) == amount > account.available

\* mutant of NotDisputed: the disputed set is not consulted
NotDisputed_Missing(tx) == FALSE

\* the Resolve and Chargeback guard: the transaction is not under dispute
NotDisputed(tx) == tx \notin disputed_transaction_ids

\* mutant of AlreadyResolved: the resolved set is not consulted
AlreadyResolved_Missing(tx) == FALSE

\* the Resolve guard: the transaction is already resolved
AlreadyResolved(tx) == tx \in resolved_dispute_ids

\* mutant of Validated: the client of the stored transaction is not compared
Validated_AnyClient(t) ==
    /\ t.tx \in DOMAIN disputable_transactions
    /\ ~is_none(disputable_transactions[t.tx].amount)

\* the lookup, client and amount checks shared by Dispute, Resolve and Chargeback
Validated(t) ==
    /\ t.tx \in DOMAIN disputable_transactions
    /\ disputable_transactions[t.tx].client = t.client
    /\ ~is_none(disputable_transactions[t.tx].amount)

\* mutant of ApplyDeposit: total is not credited
ApplyDeposit_NoTotal(account, amount) ==
    [account EXCEPT !.available = @ + amount]

\* the balance updates of the five arms
ApplyDeposit(account, amount) ==
    [account EXCEPT !.available = @ + amount, !.total = @ + amount]

ApplyWithdrawal(account, amount) ==
    [account EXCEPT !.available = @ - amount, !.total = @ - amount]

\* mutant of ApplyDispute: the disputed amount leaves the account instead of being held
ApplyDispute_Debit(account, amount) ==
    [account EXCEPT !.available = @ - amount, !.total = @ - amount]

ApplyDispute(account, amount) ==
    [account EXCEPT !.available = @ - amount, !.held = @ + amount]

\* mutant of ApplyResolve: the funds are released but stay held
ApplyResolve_KeepsHeld(account, amount) ==
    [account EXCEPT !.available = @ + amount]

\* mutant of ApplyResolve: the account is frozen as in the Chargeback arm
ApplyResolve_Locks(account, amount) ==
    [account EXCEPT !.held = @ - amount, !.available = @ + amount, !.locked = TRUE]

ApplyResolve(account, amount) ==
    [account EXCEPT !.held = @ - amount, !.available = @ + amount]

\* mutant of RevertResolve: the earlier resolve is not undone
RevertResolve_Missing(account, amount) == account

RevertResolve(account, amount) ==
    [account EXCEPT !.held = @ + amount, !.available = @ - amount]

\* mutant of ApplyChargeback: the amount is taken from available instead of held
ApplyChargeback_FromAvailable(account, amount) ==
    [account EXCEPT !.available = @ - amount, !.total = @ - amount, !.locked = TRUE]

ApplyChargeback(account, amount) ==
    [account EXCEPT !.held = @ - amount, !.total = @ - amount, !.locked = TRUE]

EngineState == [accounts |-> accounts,
                disputable_transactions |-> disputable_transactions,
                disputed_transaction_ids |-> disputed_transaction_ids,
                resolved_dispute_ids |-> resolved_dispute_ids]

\* AccountService::new
Init ==
    /\ accounts = << >>
    /\ disputable_transactions = << >>
    /\ disputed_transaction_ids = {}
    /\ resolved_dispute_ids = {}
    /\ last = << >>
    /\ before = << >>
    /\ dispute_start = << >>
    /\ steps = 0
    /\ clients_seen = {}
    /\ disputes_applied = {}
    /\ ids_once = TRUE
    /\ pc = "reading"
    /\ idx = 0
    /\ skipped = 0

\* one more row read and passed to the engine as transaction t: the loop
\* position and the history variables
Called(t) ==
    /\ last' = t
    /\ pc = "reading"
    /\ idx < MaxSteps
    /\ idx' = idx + 1
    /\ steps' = steps + 1
    /\ UNCHANGED <<pc, skipped>>
    /\ clients_seen' = clients_seen \cup {t.client}
    /\ disputes_applied' =
           IF /\ t.type = "dispute"
              /\ ~(t.client \in DOMAIN accounts /\ IsLocked(accounts[t.client]))
              /\ Validated(t)
           THEN disputes_applied \cup {<<t.client, t.tx>>}
           ELSE disputes_applied
    /\ ids_once' = /\ ids_once
                   /\ ~(/\ t.type \in {"deposit", "withdrawal"}
                        /\ t.tx \in DOMAIN disputable_transactions)
                   /\ ~(t.type = "dispute" /\ t.tx \in disputed_transaction_ids)
    /\ before' = EngineState
    /\ dispute_start' = IF /\ steps > 0
                           /\ t.type = "resolve"
                           /\ last.type = "dispute"
                           /\ last.client = t.client
                           /\ last.tx = t.tx
                        THEN <<before>>
                        ELSE << >>

\* an early return: nothing but the account lookup has taken effect
Return(accts) ==
    /\ accounts' = accts
    /\ UNCHANGED <<disputable_transactions, disputed_transaction_ids, resolved_dispute_ids>>

Deposit(t) ==
    /\ t.type = "deposit"
    /\ Called(t)
    /\ LET accts == EnsureAccount(accounts, t.client)
           account == accts[t.client]
       IN  IF IsLocked(account) \/ is_none(t.amount)
           THEN Return(accts)
           ELSE /\ accounts' = [accts EXCEPT ![t.client] = ApplyDeposit(account, unwrap(t.amount))]
                /\ disputable_transactions' = MapInsert(disputable_transactions, t.tx, t)
                /\ UNCHANGED <<disputed_transaction_ids, resolved_dispute_ids>>

\* mutant of Withdrawal: the transaction is stored before the funds are checked
Withdrawal_StoresRejected(t) ==
    /\ t.type = "withdrawal"
    /\ Called(t)
    /\ LET accts == EnsureAccount(accounts, t.client)
           account == accts[t.client]
       IN  IF IsLocked(account) \/ is_none(t.amount)
           THEN Return(accts)
           ELSE IF InsufficientFunds(unwrap(t.amount), account)
           THEN /\ accounts' = accts
                /\ disputable_transactions' = MapInsert(disputable_transactions, t.tx, t)
                /\ UNCHANGED <<disputed_transaction_ids, resolved_dispute_ids>>
           ELSE /\ accounts' = [accts EXCEPT ![t.client] = ApplyWithdrawal(account, unwrap(t.amount))]
                /\ disputable_transactions' = MapInsert(disputable_transactions, t.tx, t)
                /\ UNCHANGED <<disputed_transaction_ids, resolved_dispute_ids>>

Withdrawal(t) ==
    /\ t.type = "withdrawal"
    /\ Called(t)
    /\ LET accts == EnsureAccount(accounts, t.client)
           account == accts[t.client]
       IN  IF IsLocked(account) \/ is_none(t.amount)
           THEN Return(accts)
           ELSE IF InsufficientFunds(unwrap(t.amount), account)
           THEN Return(accts)
           ELSE /\ accounts' = [accts EXCEPT ![t.client] = ApplyWithdrawal(account, unwrap(t.amount))]
                /\ disputable_transactions' = MapInsert(disputable_transactions, t.tx, t)
                /\ UNCHANGED <<disputed_transaction_ids, resolved_dispute_ids>>

\* mutant of Dispute: the funds are held on the account of the stored
\* transaction's client, whoever sends the Dispute
Dispute_OnOwner(t) ==
    /\ t.type = "dispute"
    /\ Called(t)
    /\ LET accts == EnsureAccount(accounts, t.client)
           account == accts[t.client]
       IN  IF IsLocked(account) \/ ~Validated_AnyClient(t)
           THEN Return(accts)
           ELSE LET amount == unwrap(disputable_transactions[t.tx].amount)
                    owner == disputable_transactions[t.tx].client
                IN  /\ accounts' = [accts EXCEPT ![owner] = ApplyDispute(accts[owner], amount)]
                    /\ disputed_transaction_ids' = disputed_transaction_ids \cup {t.tx}
                    /\ UNCHANGED <<disputable_transactions, resolved_dispute_ids>>

\* mutant of Dispute: a tx that is already under dispute is rejected
Dispute_RejectsRepeat(t) ==
    /\ t.type = "dispute"
    /\ Called(t)
    /\ LET accts == EnsureAccount(accounts, t.client)
           account == accts[t.client]
       IN  IF IsLocked(account) \/ ~Validated(t) \/ t.tx \in disputed_transaction_ids
           THEN Return(accts)
           ELSE LET amount == unwrap(disputable_transactions[t.tx].amount)
                IN  /\ accounts' = [accts EXCEPT ![t.client] = ApplyDispute(account, amount)]
                    /\ disputed_transaction_ids' = disputed_transaction_ids \cup {t.tx}
                    /\ UNCHANGED <<disputable_transactions, resolved_dispute_ids>>

Dispute(t) ==
    /\ t.type = "dispute"
    /\ Called(t)
    /\ LET accts == EnsureAccount(accounts, t.client)
           account == accts[t.client]
       IN  IF IsLocked(account) \/ ~Validated(t)
           THEN Return(accts)
           ELSE LET amount == unwrap(disputable_transactions[t.tx].amount)
                IN  /\ accounts' = [accts EXCEPT ![t.client] = ApplyDispute(account, amount)]
                    /\ disputed_transaction_ids' = disputed_transaction_ids \cup {t.tx}
                    /\ UNCHANGED <<disputable_transactions, resolved_dispute_ids>>

\* mutant of Resolve: the resolved tx is taken out of the disputed set
Resolve_ClearsDispute(t) ==
    /\ t.type = "resolve"
    /\ Called(t)
    /\ LET accts == EnsureAccount(accounts, t.client)
           account == accts[t.client]
       IN  IF IsLocked(account)
           THEN Return(accts)
           ELSE IF NotDisputed(t.tx)
           THEN Return(accts)
           ELSE IF AlreadyResolved(t.tx)
           THEN Return(accts)
           ELSE IF ~Validated(t)
           THEN Return(accts)
           ELSE LET amount == unwrap(disputable_transactions[t.tx].amount)
                IN  /\ accounts' = [accts EXCEPT ![t.client] = ApplyResolve(account, amount)]
                    /\ disputed_transaction_ids' = disputed_transaction_ids \ {t.tx}
                    /\ UNCHANGED <<disputable_transactions, resolved_dispute_ids>>

Resolve(t) ==
    /\ t.type = "resolve"
    /\ Called(t)
    /\ LET accts == EnsureAccount(accounts, t.client)
           account == accts[t.client]
       IN  IF IsLocked(account)
           THEN Return(accts)
           ELSE IF NotDisputed(t.tx)
           THEN Return(accts)
           ELSE IF AlreadyResolved(t.tx)
           THEN Return(accts)
           ELSE IF ~Validated(t)
           THEN Return(accts)
           ELSE LET amount == unwrap(disputable_transactions[t.tx].amount)
                IN  /\ accounts' = [accts EXCEPT ![t.client] = ApplyResolve(account, amount)]
                    /\ resolved_dispute_ids' = resolved_dispute_ids \cup {t.tx}
                    /\ UNCHANGED <<disputable_transactions, disputed_transaction_ids>>

Chargeback(t) ==
    /\ t.type = "chargeback"
    /\ Called(t)
    /\ LET accts == EnsureAccount(accounts, t.client)
           account == accts[t.client]
       IN  IF IsLocked(account)
           THEN Return(accts)
           ELSE IF NotDisputed(t.tx)
           THEN Return(accts)
           ELSE IF ~Validated(t)
           THEN Return(accts)
           ELSE LET amount == unwrap(disputable_transactions[t.tx].amount)
                    reverted == IF t.tx \in resolved_dispute_ids
                                THEN RevertResolve(account, amount)
                                ELSE account
                IN  /\ accounts' = [accts EXCEPT ![t.client] = ApplyChargeback(reverted, amount)]
                    /\ resolved_dispute_ids' = resolved_dispute_ids \ {t.tx}
                    /\ UNCHANGED <<disputable_transactions, disputed_transaction_ids>>

\* the `_ => ()` arm
Unknown(t) ==
    /\ t.type = "unknown"
    /\ Called(t)
    /\ Return(EnsureAccount(accounts, t.client))

\* mutant of summary: locked accounts are left out of the report
summary_UnlockedOnly ==
    [c \in {k \in DOMAIN accounts : ~accounts[k].locked} |-> accounts[c]]

\* AccountService::summary
summary == accounts

Next ==
    \/ \E t \in TransactionsOf("deposit") : Deposit(t)
    \/ \E t \in TransactionsOf("withdrawal") : Withdrawal(t)
    \/ \E t \in TransactionsOf("dispute") : Dispute(t)
    \/ \E t \in TransactionsOf("resolve") : Resolve(t)
    \/ \E t \in TransactionsOf("chargeback") : Chargeback(t)
    \/ \E t \in TransactionsOf("unknown") : Unknown(t)

Spec == Init /\ [][Next]_vars

\* mutant of SkipMalformed: the parse error is propagated and ends the run
SkipMalformed_Aborts ==
    /\ pc = "reading"
    /\ idx < MaxSteps
    /\ idx' = idx + 1
    /\ pc' = "aborted"
    /\ UNCHANGED <<accounts, disputable_transactions, disputed_transaction_ids,
                   resolved_dispute_ids, last, before, dispute_start, steps, clients_seen, ids_once,
                   disputes_applied,
                   skipped>>

\* the Err arm of the loop: the row does not deserialize into a Transaction;
\* it is logged when asked for and the loop continues with the next row
SkipMalformed ==
    /\ pc = "reading"
    /\ idx < MaxSteps
    /\ idx' = idx + 1
    /\ skipped' = skipped + 1
    /\ UNCHANGED <<accounts, disputable_transactions, disputed_transaction_ids,
                   resolved_dispute_ids, last, before, dispute_start, steps, clients_seen, ids_once,
                   disputes_applied,
                   pc>>

\* the reader is exhausted: the loop ends and the summary is written; the
\* history of the latest call ends with the loop
EndOfStream ==
    /\ pc = "reading"
    /\ pc' = "done"
    /\ last' = << >>
    /\ before' = << >>
    /\ dispute_start' = << >>
    /\ UNCHANGED <<accounts, disputable_transactions, disputed_transaction_ids,
                   resolved_dispute_ids, steps, clients_seen, ids_once, disputes_applied,
                   idx, skipped>>

\* main over an input stream of at most MaxSteps rows, each row well-formed
\* (a Transaction of any type) or malformed
MainNext ==
    \/ EndOfStream
    \/ SkipMalformed
    \/ Next

\* The loop is sequential code without blocking calls other than the read of
\* the next row of a finite file: an iteration that can run does run.
SpecMain == Init /\ [][MainNext]_vars /\ WF_vars(MainNext)

----------------------------------------------------------------------------
\* The account of c as the latest call found it after its lookup
AccountBefore(c) ==
    IF c \in DOMAIN before.accounts THEN before.accounts[c] ELSE NewAccount(c)

\* C1: after any sequence of record_transaction calls, every account has
\* total = available + held exactly.
TotalIsAvailablePlusHeld ==
    \A c \in DOMAIN accounts :
        accounts[c].total = accounts[c].available + accounts[c].held

\* C1 witness: an account whose funds are split between available and held,
\* after at least a deposit, a dispute and one more balance change.
TotalIsAvailablePlusHeld_Witness ==
    \E c \in DOMAIN accounts :
        /\ accounts[c].held > 0
        /\ accounts[c].available > 0
        /\ accounts[c].total = accounts[c].available + accounts[c].held
        /\ steps >= 3

\* C2: after any sequence of calls (the amounts of the model are all
\* positive), every account has available >= 0.
AvailableNonNegative ==
    \A c \in DOMAIN accounts : accounts[c].available >= 0

\* C3: after any sequence of calls (the amounts of the model are all
\* positive), in which a tx id may be carried by several deposits and
\* withdrawals, every account has held >= 0.
HeldNonNegative ==
    \A c \in DOMAIN accounts : accounts[c].held >= 0

\* C4: once an account is locked, no call changes any of its fields.
LockedIsInert ==
    [][\A c \in DOMAIN accounts :
          accounts[c].locked => (c \in DOMAIN accounts' /\ accounts'[c] = accounts[c])]_vars

\* C4 witness: a Deposit of a positive amount has been sent to an account that
\* was already locked when the call started.
LockedIsInert_Witness ==
    /\ steps > 0
    /\ last.type = "deposit"
    /\ ~is_none(last.amount)
    /\ unwrap(last.amount) > 0
    /\ last.client \in DOMAIN before.accounts
    /\ before.accounts[last.client].locked

\* C5: locked goes from false to true only in a call that is a Chargeback for
\* that account's client, and never goes from true to false.
LockedOnlyByChargeback ==
    [][\A c \in DOMAIN accounts' :
          LET was == c \in DOMAIN accounts /\ accounts[c].locked
          IN  /\ was => accounts'[c].locked
              /\ (~was /\ accounts'[c].locked) =>
                     (last'.type = "chargeback" /\ last'.client = c)]_vars

\* C5 witness: the latest call locked an account that was unlocked.
LockedOnlyByChargeback_Witness ==
    /\ steps > 0
    /\ last.client \in DOMAIN before.accounts
    /\ ~before.accounts[last.client].locked
    /\ accounts[last.client].locked

\* C6: a Withdrawal of more than the available balance changes no balance, and
\* a Withdrawal that takes effect leaves available >= 0.
WithdrawalNeverOverdraws ==
    [][(last'.type = "withdrawal" /\ ~is_none(last'.amount)) =>
          LET c == last'.client
              amount == unwrap(last'.amount)
              pre == IF c \in DOMAIN accounts THEN accounts[c] ELSE NewAccount(c)
          IN  /\ amount > pre.available => accounts'[c] = pre
              /\ (accounts'[c] # pre \/ disputable_transactions' # disputable_transactions)
                     => accounts'[c].available >= 0]_vars

\* C6 witness: a Withdrawal of more than the available balance has been sent
\* to an unlocked account that holds funds (its total is positive).
WithdrawalNeverOverdraws_Witness ==
    /\ steps > 0
    /\ last.type = "withdrawal"
    /\ ~is_none(last.amount)
    /\ ~AccountBefore(last.client).locked
    /\ AccountBefore(last.client).total > 0
    /\ unwrap(last.amount) > AccountBefore(last.client).available

\* C7: a Dispute of client c on a stored transaction of c with amount a, on an
\* unlocked account, moves a from available to held, leaves total and locked
\* unchanged and puts the tx in the disputed set.
DisputeHoldsFunds ==
    [][(/\ last'.type = "dispute"
        /\ last'.client \in DOMAIN accounts
        /\ ~accounts[last'.client].locked
        /\ last'.tx \in DOMAIN disputable_transactions
        /\ disputable_transactions[last'.tx].client = last'.client
        /\ ~is_none(disputable_transactions[last'.tx].amount)) =>
          LET c == last'.client
              a == unwrap(disputable_transactions[last'.tx].amount)
          IN  /\ accounts'[c].available = accounts[c].available - a
              /\ accounts'[c].held = accounts[c].held + a
              /\ accounts'[c].total = accounts[c].total
              /\ accounts'[c].locked = accounts[c].locked
              /\ last'.tx \in disputed_transaction_ids']_vars

\* C7 witness: the latest call was such a Dispute, of a positive amount.
DisputeHoldsFunds_Witness ==
    /\ steps > 0
    /\ last.type = "dispute"
    /\ last.client \in DOMAIN before.accounts
    /\ ~before.accounts[last.client].locked
    /\ last.tx \in DOMAIN before.disputable_transactions
    /\ before.disputable_transactions[last.tx].client = last.client
    /\ ~is_none(before.disputable_transactions[last.tx].amount)
    /\ unwrap(before.disputable_transactions[last.tx].amount) > 0

\* C8: for a stored transaction of client c whose tx has never entered the
\* disputed set, on an unlocked account, a Dispute directly followed by a
\* Resolve of that tx returns available, held and total to their values before
\* the Dispute and leaves the account unlocked.
DisputeThenResolveRestores ==
    dispute_start # << >> =>
        LET s == dispute_start[1]
            c == last.client
        IN  (/\ last.tx \in DOMAIN s.disputable_transactions
             /\ s.disputable_transactions[last.tx].client = c
             /\ last.tx \notin s.disputed_transaction_ids
             /\ c \in DOMAIN s.accounts
             /\ ~s.accounts[c].locked) =>
                /\ accounts[c].available = s.accounts[c].available
                /\ accounts[c].held = s.accounts[c].held
                /\ accounts[c].total = s.accounts[c].total
                /\ ~accounts[c].locked

\* C8 witness: such a Dispute and Resolve have been applied to a transaction of
\* a positive amount (the Resolve put the tx in the resolved set).
DisputeThenResolveRestores_Witness ==
    /\ dispute_start # << >>
    /\ last.tx \in DOMAIN dispute_start[1].disputable_transactions
    /\ dispute_start[1].disputable_transactions[last.tx].client = last.client
    /\ unwrap(dispute_start[1].disputable_transactions[last.tx].amount) > 0
    /\ last.tx \notin dispute_start[1].disputed_transaction_ids
    /\ ~dispute_start[1].accounts[last.client].locked
    /\ before.accounts[last.client].held > 0
    /\ last.tx \in resolved_dispute_ids \ before.resolved_dispute_ids

\* C9: a Resolve for a tx that is already in the resolved set changes no
\* account, nor the history index, the disputed set or the resolved set.
ResolveReplayIsNoOp ==
    [][(last'.type = "resolve" /\ last'.tx \in resolved_dispute_ids) =>
          /\ \A c \in DOMAIN accounts : c \in DOMAIN accounts' /\ accounts'[c] = accounts[c]
          /\ last'.client \in DOMAIN accounts => accounts' = accounts
          /\ disputable_transactions' = disputable_transactions
          /\ disputed_transaction_ids' = disputed_transaction_ids
          /\ resolved_dispute_ids' = resolved_dispute_ids]_vars

\* C9 witness: a Resolve has been replayed by the owner of the stored
\* transaction, on an unlocked account, for a tx already resolved and holding
\* a positive amount.
ResolveReplayIsNoOp_Witness ==
    /\ steps > 0
    /\ last.type = "resolve"
    /\ last.tx \in before.resolved_dispute_ids
    /\ last.tx \in before.disputed_transaction_ids
    /\ last.client \in DOMAIN before.accounts
    /\ ~before.accounts[last.client].locked
    /\ before.disputable_transactions[last.tx].client = last.client
    /\ unwrap(before.disputable_transactions[last.tx].amount) > 0

\* C10: a Chargeback of client c on a tx that is disputed and not resolved,
\* stored for c with amount a, on an unlocked account, lowers held and total by
\* a, leaves available unchanged and locks the account.
ChargebackRemovesHeld ==
    [][(/\ last'.type = "chargeback"
        /\ last'.tx \in disputed_transaction_ids
        /\ last'.tx \notin resolved_dispute_ids
        /\ last'.tx \in DOMAIN disputable_transactions
        /\ disputable_transactions[last'.tx].client = last'.client
        /\ ~is_none(disputable_transactions[last'.tx].amount)
        /\ last'.client \in DOMAIN accounts
        /\ ~accounts[last'.client].locked) =>
          LET c == last'.client
              a == unwrap(disputable_transactions[last'.tx].amount)
          IN  /\ accounts'[c].held = accounts[c].held - a
              /\ accounts'[c].total = accounts[c].total - a
              /\ accounts'[c].available = accounts[c].available
              /\ accounts'[c].locked]_vars

\* C10 witness: such a Chargeback of a positive amount has been applied to an
\* account that also had available funds.
ChargebackRemovesHeld_Witness ==
    /\ steps > 0
    /\ last.type = "chargeback"
    /\ last.tx \in before.disputed_transaction_ids \ before.resolved_dispute_ids
    /\ last.tx \in DOMAIN before.disputable_transactions
    /\ before.disputable_transactions[last.tx].client = last.client
    /\ unwrap(before.disputable_transactions[last.tx].amount) > 0
    /\ last.client \in DOMAIN before.accounts
    /\ ~before.accounts[last.client].locked
    /\ before.accounts[last.client].available > 0
    /\ accounts[last.client].locked

\* C11: a Chargeback of client c on a tx that is in the disputed and in the
\* resolved set, stored for c with amount a, on an unlocked account, is accepted
\* and first reverts the resolve: available and total drop by a, held is
\* unchanged, the tx leaves the resolved set and the account is locked.  After
\* Deposit, Dispute, Resolve, Chargeback of one tx on a fresh engine the account
\* is (0, 0, 0, locked), as it is after Deposit, Dispute, Chargeback.
ChargebackRevertsResolve ==
    [][/\ (/\ last'.type = "chargeback"
           /\ last'.tx \in disputed_transaction_ids
           /\ last'.tx \in resolved_dispute_ids
           /\ last'.tx \in DOMAIN disputable_transactions
           /\ disputable_transactions[last'.tx].client = last'.client
           /\ ~is_none(disputable_transactions[last'.tx].amount)
           /\ last'.client \in DOMAIN accounts
           /\ ~accounts[last'.client].locked) =>
             LET c == last'.client
                 a == unwrap(disputable_transactions[last'.tx].amount)
             IN  /\ accounts'[c].available = accounts[c].available - a
                 /\ accounts'[c].total = accounts[c].total - a
                 /\ accounts'[c].held = accounts[c].held
                 /\ accounts'[c].locked
                 /\ last'.tx \notin resolved_dispute_ids'
       /\ (/\ last'.type = "chargeback"
           /\ last'.tx \in disputed_transaction_ids
           /\ last'.tx \in DOMAIN disputable_transactions
           /\ disputable_transactions[last'.tx].type = "deposit"
           /\ disputable_transactions[last'.tx].client = last'.client
           /\ \/ steps = 2 /\ resolved_dispute_ids = {}
              \/ steps = 3 /\ resolved_dispute_ids = {last'.tx}) =>
             LET c == last'.client
             IN  /\ accounts'[c].available = 0
                 /\ accounts'[c].held = 0
                 /\ accounts'[c].total = 0
                 /\ accounts'[c].locked]_vars

\* C11 witness: a Chargeback has been applied to a resolved dispute of a
\* positive amount, as the fourth call after Deposit, Dispute and Resolve.
ChargebackRevertsResolve_Witness ==
    /\ steps = 4
    /\ last.type = "chargeback"
    /\ last.tx \in before.disputed_transaction_ids
    /\ last.tx \in before.resolved_dispute_ids
    /\ before.disputable_transactions[last.tx].client = last.client
    /\ before.disputable_transactions[last.tx].type = "deposit"
    /\ unwrap(before.disputable_transactions[last.tx].amount) > 0
    /\ ~before.accounts[last.client].locked
    /\ accounts[last.client].locked
    /\ last.tx \notin resolved_dispute_ids

\* C12: a Dispute of a tx that is not in the history index, and a Resolve or
\* Chargeback of a tx that is not in the disputed set, change no existing
\* account, nor the history index, the disputed set or the resolved set; at
\* most they create the zeroed account of a client seen for the first time.
UnknownTxIsNoOp ==
    [][(\/ last'.type = "dispute" /\ last'.tx \notin DOMAIN disputable_transactions
        \/ /\ last'.type \in {"resolve", "chargeback"}
           /\ last'.tx \notin disputed_transaction_ids) =>
          /\ \A c \in DOMAIN accounts : c \in DOMAIN accounts' /\ accounts'[c] = accounts[c]
          /\ \A c \in DOMAIN accounts' \ DOMAIN accounts :
                /\ c = last'.client
                /\ accounts'[c] =
                       [client |-> c, available |-> 0, held |-> 0, total |-> 0, locked |-> FALSE]
          /\ disputable_transactions' = disputable_transactions
          /\ disputed_transaction_ids' = disputed_transaction_ids
          /\ resolved_dispute_ids' = resolved_dispute_ids]_vars

\* C12 witness: a Resolve has named a stored, undisputed tx of its own client
\* while another tx of that client was under dispute with funds held.
UnknownTxIsNoOp_Witness ==
    /\ steps > 0
    /\ last.type = "resolve"
    /\ last.tx \in DOMAIN before.disputable_transactions
    /\ before.disputable_transactions[last.tx].client = last.client
    /\ last.tx \notin before.disputed_transaction_ids
    /\ before.disputed_transaction_ids # {}
    /\ last.client \in DOMAIN before.accounts
    /\ ~before.accounts[last.client].locked
    /\ before.accounts[last.client].held > 0

\* C13: a Dispute, Resolve or Chargeback whose client differs from the client of
\* the stored transaction changes no balance or lock flag of the owner of the
\* stored transaction or of the sender, and neither the disputed nor the
\* resolved set.
CrossClientIsNoOp ==
    [][(/\ last'.type \in {"dispute", "resolve", "chargeback"}
        /\ last'.tx \in DOMAIN disputable_transactions
        /\ disputable_transactions[last'.tx].client # last'.client) =>
          LET owner == disputable_transactions[last'.tx].client
              sender == last'.client
              pre == IF sender \in DOMAIN accounts
                     THEN accounts[sender]
                     ELSE [client |-> sender, available |-> 0, held |-> 0, total |-> 0,
                           locked |-> FALSE]
          IN  /\ accounts'[owner] = accounts[owner]
              /\ accounts'[sender] = pre
              /\ disputed_transaction_ids' = disputed_transaction_ids
              /\ resolved_dispute_ids' = resolved_dispute_ids]_vars

\* C13 witness: a Chargeback has been sent by a client with an unlocked account
\* for a tx that is under dispute and stored for another client.
CrossClientIsNoOp_Witness ==
    /\ steps > 0
    /\ last.type = "chargeback"
    /\ last.tx \in before.disputed_transaction_ids
    /\ last.tx \in DOMAIN before.disputable_transactions
    /\ before.disputable_transactions[last.tx].client # last.client
    /\ ~AccountBefore(last.client).locked
    /\ before.accounts[before.disputable_transactions[last.tx].client].held > 0

\* C14: after any sequence of calls the client ids of the summary are exactly
\* the client ids of the transactions recorded so far, no-ops included; an
\* account is created zeroed and unlocked (the creating call, when it is an
\* applied Deposit, has then credited its amount); no account is ever removed.
SummaryListsSeenClients ==
    [][/\ DOMAIN summary' = clients_seen'
       /\ DOMAIN summary \subseteq DOMAIN summary'
       /\ \A c \in DOMAIN summary' \ DOMAIN summary :
             LET zero == [client |-> c, available |-> 0, held |-> 0, total |-> 0,
                          locked |-> FALSE]
             IN  /\ c = last'.client
                 /\ summary'[c] =
                        IF last'.type = "deposit" /\ ~is_none(last'.amount)
                        THEN [zero EXCEPT !.available = unwrap(last'.amount),
                                          !.total = unwrap(last'.amount)]
                        ELSE zero]_vars

\* C14 witness: a call without effect on balances has created the zeroed
\* account of a second client while the account of the first was locked.
SummaryListsSeenClients_Witness ==
    /\ steps > 0
    /\ last.type \in {"dispute", "resolve", "chargeback", "unknown", "withdrawal"}
    /\ last.client \notin DOMAIN before.accounts
    /\ last.client \in DOMAIN summary
    /\ summary[last.client].total = 0
    /\ \E c \in DOMAIN before.accounts : before.accounts[c].locked /\ c \in DOMAIN summary

\* C15: a tx id that has entered the disputed set is in it after every later
\* call, a Resolve or a Chargeback of that tx id included.
DisputedSetOnlyGrows ==
    [][disputed_transaction_ids \subseteq disputed_transaction_ids']_vars

\* C15 witness: a Resolve has been applied to a disputed tx, which is now in the
\* resolved set and still in the disputed set.
DisputedSetOnlyGrows_Witness ==
    /\ steps > 0
    /\ last.type = "resolve"
    /\ last.tx \in before.disputed_transaction_ids
    /\ last.tx \notin before.resolved_dispute_ids
    /\ last.tx \in resolved_dispute_ids
    /\ last.tx \in disputed_transaction_ids

\* C16: a Dispute of client c for a tx that is already in the disputed set,
\* stored for c with amount a, on an unlocked account, is applied again:
\* available drops by a and held rises by a.  Two consecutive Disputes of the
\* same tx move 2a from available to held.
RepeatedDisputeHoldsAgain ==
    [][(/\ last'.type = "dispute"
        /\ last'.tx \in disputed_transaction_ids
        /\ last'.tx \in DOMAIN disputable_transactions
        /\ disputable_transactions[last'.tx].client = last'.client
        /\ ~is_none(disputable_transactions[last'.tx].amount)
        /\ last'.client \in DOMAIN accounts
        /\ ~accounts[last'.client].locked) =>
          LET c == last'.client
              a == unwrap(disputable_transactions[last'.tx].amount)
          IN  /\ accounts'[c].available = accounts[c].available - a
              /\ accounts'[c].held = accounts[c].held + a
              /\ accounts'[c].total = accounts[c].total
              /\ ~accounts'[c].locked
              /\ (/\ last = last'
                  /\ c \in DOMAIN before.accounts
                  /\ ~before.accounts[c].locked
                  /\ last.tx \in DOMAIN before.disputable_transactions
                  /\ before.disputable_transactions[last.tx] = disputable_transactions[last.tx]) =>
                    /\ accounts'[c].available = before.accounts[c].available - 2 * a
                    /\ accounts'[c].held = before.accounts[c].held + 2 * a]_vars

\* C16 witness: the latest call is the second of two consecutive Disputes of
\* one stored tx of a positive amount, and the account holds the amount twice.
RepeatedDisputeHoldsAgain_Witness ==
    /\ steps > 0
    /\ last.type = "dispute"
    /\ last.tx \in before.disputed_transaction_ids
    /\ last.tx \in DOMAIN before.disputable_transactions
    /\ before.disputable_transactions[last.tx].client = last.client
    /\ unwrap(before.disputable_transactions[last.tx].amount) > 0
    /\ ~before.accounts[last.client].locked
    /\ accounts[last.client].held =
           2 * unwrap(before.disputable_transactions[last.tx].amount)

HistoryOnlyOfApplied ==
    [][LET c == last'.client
           pre == IF c \in DOMAIN accounts
                  THEN accounts[c]
                  ELSE [client |-> c, available |-> 0, held |-> 0, total |-> 0,
                        locked |-> FALSE]
       IN  /\ \A x \in DOMAIN disputable_transactions' :
                 (\/ x \notin DOMAIN disputable_transactions
                  \/ disputable_transactions'[x] # disputable_transactions[x]) =>
                    /\ last'.type \in {"deposit", "withdrawal"}
                    /\ last'.tx = x
                    /\ disputable_transactions'[x] = last'
                    /\ ~is_none(last'.amount)
                    /\ ~pre.locked
                    /\ last'.type = "withdrawal" => unwrap(last'.amount) <= pre.available
                    /\ accounts'[c].total =
                           IF last'.type = "deposit"
                           THEN pre.total + unwrap(last'.amount)
                           ELSE pre.total - unwrap(last'.amount)
           /\ DOMAIN disputable_transactions \subseteq DOMAIN disputable_transactions'
           /\ (last'.type = "dispute" /\ last'.tx \notin DOMAIN disputable_transactions) =>
                 /\ accounts'[c] = pre
                 /\ disputed_transaction_ids' = disputed_transaction_ids
                 /\ resolved_dispute_ids' = resolved_dispute_ids]_vars

\* C18 witness: a Withdrawal with an amount, sent to an unlocked account with
\* too little available, carried a tx id that was not in the history index, and
\* the tx id is not in the index now.
HistoryOnlyOfApplied_Witness ==
    /\ steps > 0
    /\ last.type = "withdrawal"
    /\ ~is_none(last.amount)
    /\ ~AccountBefore(last.client).locked
    /\ unwrap(last.amount) > AccountBefore(last.client).available
    /\ last.tx \notin DOMAIN before.disputable_transactions
    /\ before.disputable_transactions # << >>
    /\ last.tx \notin DOMAIN disputable_transactions

\* C19: a call of record_transaction changes available, held, total and locked
\* of no account other than the one of the transaction's client, whatever the
\* type and the tx id, a tx id stored for another client included.
OtherAccountsUntouched ==
    [][\A c \in DOMAIN accounts :
          c # last'.client => (c \in DOMAIN accounts' /\ accounts'[c] = accounts[c])]_vars

\* C19 witness: a Resolve has been sent by one client for a tx that is under
\* dispute and stored for another client, whose account holds the amount.
OtherAccountsUntouched_Witness ==
    /\ steps > 0
    /\ last.type = "resolve"
    /\ last.tx \in before.disputed_transaction_ids
    /\ last.tx \notin before.resolved_dispute_ids
    /\ last.tx \in DOMAIN before.disputable_transactions
    /\ before.disputable_transactions[last.tx].client # last.client
    /\ accounts[before.disputable_transactions[last.tx].client].held > 0

\* the stored transactions of client c that are under dispute and not resolved
OpenDisputes(c) ==
    {x \in DOMAIN disputable_transactions :
        /\ disputable_transactions[x].client = c
        /\ x \in disputed_transaction_ids
        /\ x \notin resolved_dispute_ids}

RECURSIVE SumOfAmounts(_)
SumOfAmounts(txs) ==
    IF txs = {}
    THEN 0
    ELSE LET x == CHOOSE y \in txs : TRUE
         IN  unwrap(disputable_transactions[x].amount) + SumOfAmounts(txs \ {x})

\* C20: as long as no Deposit or Withdrawal has carried a tx id a second time
\* and no tx id has been disputed a second time, the held balance of every
\* unlocked account is the sum of the amounts of the stored transactions of its
\* client that are in the disputed set and not in the resolved set.
HeldIsSumOfOpenDisputes ==
    ids_once =>
        \A c \in DOMAIN accounts :
            ~accounts[c].locked => accounts[c].held = SumOfAmounts(OpenDisputes(c))

\* C20 witness: with every tx id used once, an unlocked account holds the
\* amount of an open dispute while another stored transaction of its client is
\* not under dispute or is resolved.
HeldIsSumOfOpenDisputes_Witness ==
    /\ ids_once
    /\ \E c \in DOMAIN accounts :
          /\ ~accounts[c].locked
          /\ accounts[c].held > 0
          /\ OpenDisputes(c) # {}
          /\ \E x \in DOMAIN disputable_transactions :
                /\ disputable_transactions[x].client = c
                /\ x \notin OpenDisputes(c)

\* C21: the account of client c becomes locked, or has a balance changed by a
\* Resolve or Chargeback, only in a call that names a tx for which a Dispute of
\* client c was applied earlier; a Deposit or Withdrawal of another client that
\* reuses a tx id of the disputed set makes no difference to that.
SettledOnlyAfterOwnDispute ==
    [][LET c == last'.client
           pre == IF c \in DOMAIN accounts
                  THEN accounts[c]
                  ELSE [client |-> c, available |-> 0, held |-> 0, total |-> 0,
                        locked |-> FALSE]
       IN  /\ \A k \in DOMAIN accounts' :
                 (accounts'[k].locked /\ ~(k \in DOMAIN accounts /\ accounts[k].locked)) =>
                    /\ k = c
                    /\ last'.type = "chargeback"
                    /\ <<c, last'.tx>> \in disputes_applied
           /\ (last'.type \in {"resolve", "chargeback"} /\ accounts'[c] # pre) =>
                 <<c, last'.tx>> \in disputes_applied]_vars

====
